---- MODULE Spec2Model ----
(***************************************************************************)
(* Query-execution core of the vector search engine:                       *)
(*   - lib/segment/src/spaces/explainability.rs : per-dimension score      *)
(*     decomposition for the four distance metrics                         *)
(*   - lib/common/common/src/types.rs : ScoreExplanation::new (top-N)      *)
(*   - src/common/query.rs : the query orchestrator (core search with      *)
(*     explanations, batched search coalesced per shard selector, ...)     *)
(*                                                                         *)
(* Four state machines share the module; the specifications are:           *)
(*   SpecExplain : the pure explanation functions applied to drawn inputs  *)
(*   SpecSearch  : one do_core_search_points call                          *)
(*   SpecBatch   : one do_search_batch_points call (well-behaved store)    *)
(*   SpecLossy   : the batch operations against a store that may return    *)
(*                 fewer result lists than requests                        *)
(*   SpecOffset  : comparisons of two ScoredPointOffset values             *)
(*                                                                         *)
(* Numbers.  ScoreType is f32 in the source.  Vector components are small  *)
(* integers here, so products, differences and sums are exact.  A score is *)
(* the record [num, den2] standing for num / sqrt(den2), kept in lowest    *)
(* terms, so that the cosine contributions (a*b)/(|v1|*|v2|) are exact     *)
(* too; f32 rounding of the square roots is not modelled.  An integer k is *)
(* [num |-> k, den2 |-> 1].                                                *)
(* Option<T> is a sequence of length at most one: None = <<>>,             *)
(* Some(x) = <<x>>.  Vec index i of the source is position i+1 here.       *)
(***************************************************************************)
EXTENDS Integers, Sequences, FiniteSets, TLC

VARIABLES
  \* ---- explanation functions (SpecExplain)
  epc,            \* "input" | "contrib" | "explained"
  v1, v2,         \* the two input vectors
  metric,         \* Distance passed to the call
  top_n,          \* Option<usize> passed to compute_explanation
  contributions,  \* Vec<DimensionContribution> returned by compute_contributions
  explanation,    \* ScoreExplanation.top_dimensions
  \* ---- do_core_search_points (SpecSearch)
  spc,                   \* "idle" | "start" | "awaiting" | "responded" | "done"
  request,               \* the CoreSearchRequest argument, as passed by the caller
  config_distance,       \* the distance metric the collection is configured with
  hits,                  \* the stored points the search matches, best first
  original_with_vector,  \* local of line 35
  query_vector,          \* local of line 42
  sent,                  \* the request handed to do_core_search_batch_points
  batch_res,             \* what the backing call resolved to
  search_outcome,        \* Result<Vec<ScoredPoint>, StorageError> returned
  \* ---- do_search_batch_points and the pass-through operations (SpecBatch, SpecLossy)
  op,             \* "search_batch" | "core_search_batch" | "query"
  lossy,          \* whether the store may return fewer result lists than searches
  bpc,            \* "idle" | "construct" | "joining" | "awaiting" | "done"
  requests,       \* Vec<(request, ShardSelectorInternal)> passed by the caller
  accumulated,    \* batch_requests: requests consumed so far
  keys,           \* batch_requests: distinct selectors in first-seen order
  buckets,        \* batch_requests: buckets[k] is the Vec<CoreSearchRequest> of keys[k]
  finalized,      \* batch_requests: buckets handed to the finalizer so far
  futures,        \* the backing calls: created (a future not yet polled), running, ok, err
  batch_outcome,  \* Result<Vec<Vec<ScoredPoint>>, StorageError> returned
  \* ---- ScoredPointOffset comparisons (SpecOffset)
  opc,            \* "idle" | "input"
  lhs, rhs,       \* the two ScoredPointOffset values compared
  cmp_res,        \* Option<Ordering>: what lhs.cmp(&rhs) returned
  partial_res,    \* Option<Option<Ordering>>: what lhs.partial_cmp(&rhs) returned
  eq_res          \* Option<bool>: what lhs == rhs returned

explVars == <<epc, v1, v2, metric, top_n, contributions, explanation>>
searchVars == <<spc, request, config_distance, hits, original_with_vector,
                query_vector, sent, batch_res, search_outcome>>
batchVars == <<op, lossy, bpc, requests, accumulated, keys, buckets, finalized,
               futures, batch_outcome>>
offsetVars == <<opc, lhs, rhs, cmp_res, partial_res, eq_res>>
vars == <<explVars, searchVars, batchVars, offsetVars>>
otherThanExplain == <<searchVars, batchVars, offsetVars>>
otherThanSearch == <<explVars, batchVars, offsetVars>>
otherThanBatch == <<explVars, searchVars, offsetVars>>
otherThanOffset == <<explVars, searchVars, batchVars>>

\* ------------------------------------------------------------------ bounds
\* longest drawn vector
MaxLen == 3
\* length of the one long vector that exceeds the default top-N
LongLen == 12

\* most requests in one batched call
MaxBatch == 3

\* largest point offset drawn
MaxIdx == 2

\* most points one search returns
MaxHits == 2

\* vector components drawn for the inputs
Elems == {-1, 0, 1}

\* ---------------------------------------------------------------- helpers
None == <<>>
Some(x) == <<x>>

Min(a, b) == IF a <= b THEN a ELSE b
AbsInt(k) == IF k < 0 THEN -k ELSE k

RECURSIVE SumSq(_)
SumSq(v) == IF v = <<>> THEN 0 ELSE v[1] * v[1] + SumSq(Tail(v))

\* num / sqrt(den2) in lowest terms: the largest k with k | num and k*k | den2
\* is divided out; zero is [0, 1].
Score(n, d2) ==
  IF n = 0 THEN [num |-> 0, den2 |-> 1]
  ELSE LET ks == {k \in 1..AbsInt(n) : n % k = 0 /\ d2 % (k * k) = 0}
           k  == CHOOSE x \in ks : \A y \in ks : y <= x
       IN [num |-> n \div k, den2 |-> d2 \div (k * k)]

IntScore(k) == [num |-> k, den2 |-> 1]

\* f32::abs, and the order OrderedFloat gives two absolute values:
\* |a| < |b|  iff  a.num^2 * b.den2 < b.num^2 * a.den2
AbsLess(a, b) == a.num * a.num * b.den2 < b.num * b.num * a.den2

Distances == {"Dot", "Cosine", "Euclid", "Manhattan"}

\* types.rs: DimensionContribution
DimensionContribution(dim, c) == [dimension |-> dim, contribution |-> c]

\* -------------------------------------------------- explainability.rs
DEFAULT_TOP_DIMENSIONS == 10

\* v1.iter().zip(v2.iter()).enumerate(): positions 1..min(len)
ZipLen(a, b) == Min(Len(a), Len(b))

dot_product_contributions(a, b) ==
  [i \in 1..ZipLen(a, b) |-> DimensionContribution(i - 1, IntScore(a[i] * b[i]))]

\* (the negation dropped)
euclidean_contributions_pos(a, b) ==
  [i \in 1..ZipLen(a, b) |->
     LET diff == a[i] - b[i]
     IN DimensionContribution(i - 1, IntScore(diff * diff))]

euclidean_contributions(a, b) ==
  [i \in 1..ZipLen(a, b) |->
     LET diff == a[i] - b[i]
     IN DimensionContribution(i - 1, IntScore(-(diff * diff)))]

\* norms are taken over the whole of each vector; a zero denominator returns
\* one zero per element of v1 (not of the zip)
cosine_contributions(a, b) ==
  LET denominator2 == SumSq(a) * SumSq(b)
  IN IF denominator2 = 0
     THEN [i \in 1..Len(a) |-> DimensionContribution(i - 1, IntScore(0))]
     ELSE [i \in 1..ZipLen(a, b) |->
             DimensionContribution(i - 1, Score(a[i] * b[i], denominator2))]

manhattan_contributions(a, b) ==
  [i \in 1..ZipLen(a, b) |->
     DimensionContribution(i - 1, IntScore(-AbsInt(a[i] - b[i])))]

compute_contributions(distance, a, b) ==
  CASE distance = "Dot" -> dot_product_contributions(a, b)
    [] distance = "Cosine" -> cosine_contributions(a, b)
    [] distance = "Euclid" -> euclidean_contributions(a, b)
    [] distance = "Manhattan" -> manhattan_contributions(a, b)

\* ------------------------------------------------------------ types.rs
\* (a comparator that forgets .abs())
SortsBefore_signed(a, b) ==
  LET x == a.contribution
      y == b.contribution
  IN IF x.num >= 0 /\ y.num < 0 THEN TRUE
     ELSE IF x.num < 0 /\ y.num >= 0 THEN FALSE
     ELSE IF x.num >= 0 THEN AbsLess(y, x) ELSE AbsLess(x, y)

\* a comparator that also puts a before b when |a| = |b|
SortsBefore_orEqual(a, b) == ~AbsLess(a.contribution, b.contribution)

\* the comparator of sort_by: a sorts strictly before b iff |b| < |a|
SortsBefore(a, b) == AbsLess(b.contribution, a.contribution)

\* slice::sort_by is stable: x, which followed every element of `sorted` in the
\* input, goes after every element that does not sort strictly after it
InsertStable(sorted, x) ==
  LET later == {j \in 1..Len(sorted) : SortsBefore(x, sorted[j])}
      pos == IF later = {} THEN Len(sorted) + 1
             ELSE CHOOSE j \in later : \A k \in later : j <= k
  IN SubSeq(sorted, 1, pos - 1) \o <<x>> \o SubSeq(sorted, pos, Len(sorted))

RECURSIVE SortByAbsDesc(_)
SortByAbsDesc(s) ==
  IF s = <<>> THEN <<>>
  ELSE InsertStable(SortByAbsDesc(SubSeq(s, 1, Len(s) - 1)), s[Len(s)])

\* Vec::truncate
Truncate(s, n) == SubSeq(s, 1, Min(n, Len(s)))

\* ScoreExplanation::new
ScoreExplanation_new(contribs, n) == Truncate(SortByAbsDesc(contribs), n)

UnwrapOr(opt, dflt) == IF opt = None THEN dflt ELSE opt[1]

compute_explanation(distance, a, b, n) ==
  ScoreExplanation_new(compute_contributions(distance, a, b),
                       UnwrapOr(n, DEFAULT_TOP_DIMENSIONS))

\* ------------------------------------------------- SpecExplain: inputs
RECURSIVE VectorsOfLen(_)
VectorsOfLen(n) ==
  IF n = 0 THEN {<<>>}
  ELSE {Append(v, e) : v \in VectorsOfLen(n - 1), e \in Elems}

Vectors == UNION {VectorsOfLen(n) : n \in 0..MaxLen}

\* the vectors of the unit tests of explainability.rs, and one vector longer
\* than DEFAULT_TOP_DIMENSIONS
LongVector == [i \in 1..LongLen |-> (i % 4) - 1]
Ones(n) == [i \in 1..n |-> 1]
TestPairs ==
  { <<<<1, 2, 3>>, <<4, 5, 6>>>>,
    <<<<1, 0>>, <<1, 0>>>>,
    <<<<1, 5, 2, 8, 3>>, <<1, 1, 1, 1, 1>>>>,
    <<<<2, -2, 1, -3>>, <<1, 1, 1, 1>>>>,
    <<<<3, 0, -3, 2>>, <<1, 2, 1, -1>>>>,
    <<LongVector, Ones(LongLen)>>,
    <<LongVector, LongVector>> }

InputPairs == (Vectors \X Vectors) \cup TestPairs

TopNs == {None} \cup {Some(n) : n \in 0..(MaxLen + 1)}

InitExplain ==
  /\ epc = "input"
  /\ \E p \in InputPairs : v1 = p[1] /\ v2 = p[2]
  /\ metric = "Dot"
  /\ top_n = None
  /\ contributions = <<>>
  /\ explanation = <<>>

\* a call of compute_contributions
CallComputeContributions(d) ==
  /\ epc = "input"
  /\ metric' = d
  /\ contributions' = compute_contributions(d, v1, v2)
  /\ epc' = "contrib"
  /\ UNCHANGED <<v1, v2, top_n, explanation>>
  /\ UNCHANGED otherThanExplain

\* a call of ScoreExplanation::new on a contribution sequence
CallScoreExplanationNew(n) ==
  /\ epc = "contrib"
  /\ top_n' = Some(n)
  /\ explanation' = ScoreExplanation_new(contributions, n)
  /\ epc' = "explained"
  /\ UNCHANGED <<v1, v2, metric, contributions>>
  /\ UNCHANGED otherThanExplain

\* a call of compute_explanation
CallComputeExplanation(d, n) ==
  /\ epc = "input"
  /\ metric' = d
  /\ top_n' = n
  /\ contributions' = compute_contributions(d, v1, v2)
  /\ explanation' = compute_explanation(d, v1, v2, n)
  /\ epc' = "explained"
  /\ UNCHANGED <<v1, v2>>
  /\ UNCHANGED otherThanExplain

NextExplain ==
  \/ \E d \in Distances : CallComputeContributions(d)
  \/ \E n \in 0..(MaxLen + 1) : CallScoreExplanationNew(n)
  \/ \E d \in Distances, n \in TopNs : CallComputeExplanation(d, n)

\* ================================================ src/common/query.rs
\* ---------------------------------------------------------- data shapes
\* WithVector::Bool(b) | WithVector::Selector(names)
WithVectorBool(b) == [kind |-> "Bool", flag |-> b, names |-> {}]
WithVectorSelector(ns) == [kind |-> "Selector", flag |-> FALSE, names |-> ns]

\* VectorInternal::Dense(v) | Sparse(_) | MultiDense(_)
Dense(v) == [kind |-> "Dense", dense |-> v]
Sparse == [kind |-> "Sparse", dense |-> <<>>]
MultiDense == [kind |-> "MultiDense", dense |-> <<>>]

\* VectorStructInternal::Single(v) | MultiDense(_) | Named(map)
EmptyMap == [n \in {} |-> Sparse]
StructSingle(v) == [kind |-> "Single", dense |-> v, named |-> EmptyMap]
StructMultiDense == [kind |-> "MultiDense", dense |-> <<>>, named |-> EmptyMap]
StructNamed(m) == [kind |-> "Named", dense |-> <<>>, named |-> m]

\* QueryEnum::Nearest(NamedQuery { query, .. }) | any other variant
QueryNearest(vec) == [kind |-> "Nearest", query |-> vec]
QueryOther == [kind |-> "RecommendBestScore", query |-> Sparse]

\* Result<_, StorageError>
Ok(x) == [ok |-> TRUE, err |-> "", value |-> x]
Err(e) == [ok |-> FALSE, err |-> e, value |-> <<>>]
Pending == [ok |-> FALSE, err |-> "pending", value |-> <<>>]

\* ScoredPoint, cut to the two fields the orchestrator touches
ScoredPoint(vec, expl) == [vector |-> vec, score_explanation |-> expl]

\* ------------------------------------------------- helpers of the call
\* (a variant that takes the vector of any Nearest query for a dense one)
extract_query_vector_any(query) ==
  IF query.kind = "Nearest" THEN Some(query.query.dense) ELSE None

extract_query_vector(query) ==
  IF query.kind = "Nearest"
  THEN IF query.query.kind = "Dense" THEN Some(query.query.dense) ELSE None
  ELSE None

\* named_map.values() is the iteration of a hash map: the first dense vector
\* met is any of the dense vectors of the map.  The set of values the call
\* may return.
extract_dense_vector_from_struct(vector_struct) ==
  CASE vector_struct.kind = "Single" -> {Some(vector_struct.dense)}
    [] vector_struct.kind = "MultiDense" -> {None}
    [] vector_struct.kind = "Named" ->
         LET ds == {n \in DOMAIN vector_struct.named :
                       vector_struct.named[n].kind = "Dense"}
         IN IF ds = {} THEN {None}
            ELSE {Some(vector_struct.named[n].dense) : n \in ds}

\* the body ignores its arguments and returns None
get_collection_distance(configured) == None

compute_explanation_for_distance(query, result, distance, n) ==
  compute_explanation(distance, query, result, Some(n))

\* lines 38-40: the request as sent
RequestSent(req) ==
  IF req.with_explanation
  THEN [req EXCEPT !.with_vector = Some(WithVectorBool(TRUE))]
  ELSE req

\* lines 42-46
QueryVector(req) ==
  IF req.with_explanation THEN extract_query_vector(req.query) ELSE None

\* lines 74-87, for one point: the points the loop body may leave
ExplainPoint(point, query_vec, distance) ==
  IF point.vector = None THEN {point}
  ELSE { IF rv = None THEN point
         ELSE [point EXCEPT !.score_explanation =
                 Some(compute_explanation_for_distance(query_vec, rv[1], distance, 10))]
         : rv \in extract_dense_vector_from_struct(point.vector[1]) }

\* line 90
StripsVectors(owv) ==
  owv = None \/ (owv[1].kind = "Bool" /\ owv[1].flag = FALSE)

\* lines 68-95: the result lists the post-processing may produce
PostProcess(results, with_explanation, owv, query_vec, configured) ==
  IF ~with_explanation THEN {results}
  ELSE
    LET distance == UnwrapOr(get_collection_distance(configured), "Cosine")
        choices == IF query_vec = None
                   THEN [i \in 1..Len(results) |-> {results[i]}]
                   ELSE [i \in 1..Len(results) |->
                           ExplainPoint(results[i], query_vec[1], distance)]
        all == UNION {choices[i] : i \in 1..Len(results)}
        explained == {r \in [1..Len(results) -> all] :
                        \A i \in 1..Len(results) : r[i] \in choices[i]}
    IN IF StripsVectors(owv)
       THEN {[i \in 1..Len(r) |-> [r[i] EXCEPT !.vector = None]] : r \in explained}
       ELSE explained

\* ---------------------------------------------- the backing store (toc)
\* The vectors the store returns for a stored point under a with_vector
\* setting: none unless asked; all of them for Bool(true); the named ones
\* selected for a Selector (the unnamed vector of a Single or MultiDense
\* point carries none of the names drawn here).
StoreVector(with_vector, stored) ==
  IF stored = None \/ with_vector = None THEN None
  ELSE LET wv == with_vector[1]
       IN IF wv.kind = "Bool"
          THEN IF wv.flag THEN stored ELSE None
          ELSE IF stored[1].kind = "Named"
               THEN Some(StructNamed(
                      [n \in (DOMAIN stored[1].named) \cap wv.names |->
                         stored[1].named[n]]))
               ELSE Some(StructNamed(EmptyMap))

\* the result list of one search: one ScoredPoint per matched point
StoreSearch(req, matched) ==
  [i \in 1..Len(matched) |-> ScoredPoint(StoreVector(req.with_vector, matched[i]), None)]

StoreErrors == {"Timeout", "NotFound"}

\* ------------------------------------------------------ drawn inputs
\* stored points: without vectors, with one unnamed vector, with vectors
\* named "a" and "b"
StoredVectors ==
  { None,
    Some(StructSingle(<<1, 0>>)),
    Some(StructMultiDense),
    Some(StructNamed([n \in {"a"} |-> Dense(<<1, 1>>)])),
    Some(StructNamed([n \in {"a"} |-> Sparse])),
    Some(StructNamed([n \in {"a", "b"} |-> IF n = "a" THEN Sparse ELSE Dense(<<2, 1>>)])),
    Some(StructNamed([n \in {"a", "b"} |-> IF n = "a" THEN Dense(<<0, 2>>) ELSE Dense(<<2, 0>>)])) }

RECURSIVE SeqsOfLen(_, _)
SeqsOfLen(S, n) ==
  IF n = 0 THEN {<<>>}
  ELSE {Append(q, x) : q \in SeqsOfLen(S, n - 1), x \in S}

SeqsUpTo(S, n) == UNION {SeqsOfLen(S, k) : k \in 0..n}

WithVectors ==
  { None, Some(WithVectorBool(FALSE)), Some(WithVectorBool(TRUE)),
    Some(WithVectorSelector({"a"})), Some(WithVectorSelector({"b"})) }

Queries ==
  { QueryNearest(Dense(<<1, 2>>)), QueryNearest(Sparse),
    QueryNearest(MultiDense), QueryOther }

CoreSearchRequests ==
  [with_explanation : BOOLEAN, with_vector : WithVectors, query : Queries]

SearchIdle ==
  /\ spc = "idle"
  /\ request = <<>>
  /\ config_distance = "Cosine"
  /\ hits = <<>>
  /\ original_with_vector = None
  /\ query_vector = None
  /\ sent = <<>>
  /\ batch_res = Pending
  /\ search_outcome = Pending

\* a Selector names vectors of a collection whose points have named vectors
SelectorFits(req, matched) ==
  (req.with_vector # None /\ req.with_vector[1].kind = "Selector") =>
    \A i \in 1..Len(matched) : matched[i] = None \/ matched[i][1].kind = "Named"

InitSearch ==
  /\ spc = "start"
  /\ request \in CoreSearchRequests
  /\ config_distance \in Distances
  /\ hits \in {h \in SeqsUpTo(StoredVectors, MaxHits) : SelectorFits(request, h)}
  /\ original_with_vector = None
  /\ query_vector = None
  /\ sent = <<>>
  /\ batch_res = Pending
  /\ search_outcome = Pending

\* lines 34-59: the locals are set, the request is changed and the backing
\* call (do_core_search_batch_points with a batch of one) is issued
SearchIssue ==
  /\ spc = "start"
  /\ original_with_vector' = request.with_vector
  /\ query_vector' = QueryVector(request)
  /\ sent' = RequestSent(request)
  /\ spc' = "awaiting"
  /\ UNCHANGED <<request, config_distance, hits, batch_res, search_outcome>>
  /\ UNCHANGED otherThanSearch

\* toc.core_search_batch resolves: an error, or a list of result lists (one
\* per search of the batch, or none at all)
StoreRespond ==
  /\ spc = "awaiting"
  /\ \/ \E e \in StoreErrors : batch_res' = Err(e)
     \/ batch_res' = Ok(<<StoreSearch(sent, hits)>>)
     \/ batch_res' = Ok(<<>>)
  /\ spc' = "responded"
  /\ UNCHANGED <<request, config_distance, hits, original_with_vector,
                 query_vector, sent, search_outcome>>
  /\ UNCHANGED otherThanSearch

\* lines 60-97
SearchReturn ==
  /\ spc = "responded"
  /\ IF ~batch_res.ok
     THEN search_outcome' = Err(batch_res.err)
     ELSE IF batch_res.value = <<>>
     THEN search_outcome' = Err("ServiceError: Empty search result")
     ELSE \E r \in PostProcess(batch_res.value[1], request.with_explanation,
                               original_with_vector, query_vector, config_distance) :
            search_outcome' = Ok(r)
  /\ spc' = "done"
  /\ UNCHANGED <<request, config_distance, hits, original_with_vector,
                 query_vector, sent, batch_res>>
  /\ UNCHANGED otherThanSearch

NextSearch ==
  \/ SearchIssue
  \/ StoreRespond
  \/ SearchReturn
\* ------------------------------------------- do_search_batch_points
ShardSelectors == {"All", "ShardKeyA", "ShardKeyB"}
SearchPayloads == {"q1", "q2"}
BatchInputs == SeqsUpTo([req : SearchPayloads, selector : ShardSelectors], MaxBatch)

\* the result list of one search executed on the shards of one selector
Exec(search, selector) == <<search, selector>>

\* toc.core_search_batch / toc.query_batch on a well-behaved store: one result
\* list per search, in the order of the batch
StoreBatch(searches, selector) ==
  [i \in 1..Len(searches) |-> Exec(searches[i], selector)]

\* the future toc.core_search_batch(..) returns: an async call does nothing
\* until it is first polled
NewFuture(selector, searches) ==
  [selector |-> selector, searches |-> searches, state |-> "created",
   result |-> <<>>, err |-> ""]

\* line 172: |(_, shard_selector)| shard_selector
GetKey(r) == r.selector

\* lines 173-176: the accumulator closure
Accumulator(r, core_reqs) == Append(core_reqs, r.req)

\* (a finalizer that issues one backing call per request of the bucket)
Finalizer_per_request(shard_selector, core_requests, res) ==
  res \o [i \in 1..Len(core_requests) |-> NewFuture(shard_selector, <<core_requests[i]>>)]

\* (a finalizer that spawns the backing call instead of keeping the future)
Finalizer_eager(shard_selector, core_requests, res) ==
  IF core_requests = <<>> THEN res
  ELSE Append(res, [NewFuture(shard_selector, core_requests) EXCEPT !.state = "running"])

\* lines 177-197: the finalizer closure
Finalizer(shard_selector, core_requests, res) ==
  IF core_requests = <<>> THEN res
  ELSE Append(res, NewFuture(shard_selector, core_requests))

\* position of a key among the keys seen so far (0: not seen)
KeyIndex(ks, key) ==
  IF \E k \in 1..Len(ks) : ks[k] = key
  THEN CHOOSE k \in 1..Len(ks) : ks[k] = key
  ELSE 0

RECURSIVE Flatten(_)
Flatten(ss) == IF ss = <<>> THEN <<>> ELSE ss[1] \o Flatten(Tail(ss))

\* (a join that drops the failed calls and returns what the others gave)
try_join_all_best_effort(futs) ==
  IF \A p \in 1..Len(futs) : futs[p].state \in {"ok", "err"}
  THEN {Ok([p \in 1..Len(futs) |-> futs[p].result])}
  ELSE {}

\* futures::future::try_join_all, polled: the outcomes it may resolve to (none
\* while it is pending).  It resolves to the error of a failed future as soon
\* as one has failed, and to the outputs in the order of the futures once all
\* have succeeded.
try_join_all(futs) ==
  IF \E p \in 1..Len(futs) : futs[p].state = "err"
  THEN {Err(futs[p].err) : p \in {q \in 1..Len(futs) : futs[q].state = "err"}}
  ELSE IF \A p \in 1..Len(futs) : futs[p].state = "ok"
       THEN {Ok([p \in 1..Len(futs) |-> futs[p].result])}
       ELSE {}

BatchIdle ==
  /\ op = "none"
  /\ lossy = FALSE
  /\ bpc = "idle"
  /\ requests = <<>>
  /\ accumulated = 0
  /\ keys = <<>>
  /\ buckets = <<>>
  /\ finalized = 0
  /\ futures = <<>>
  /\ batch_outcome = Pending

InitCall ==
  /\ bpc = "construct"
  /\ accumulated = 0
  /\ keys = <<>>
  /\ buckets = <<>>
  /\ finalized = 0
  /\ futures = <<>>
  /\ batch_outcome = Pending

InitBatch ==
  /\ op = "search_batch"
  /\ lossy = FALSE
  /\ requests \in BatchInputs
  /\ InitCall

\* batch_requests takes the next request: its key selects the bucket (a new
\* one for a key not seen before) and the accumulator adds the request to it
BatchAccumulate ==
  /\ op = "search_batch" /\ bpc = "construct"
  /\ accumulated < Len(requests)
  /\ LET r == requests[accumulated + 1]
         k == KeyIndex(keys, GetKey(r))
     IN IF k = 0
        THEN /\ keys' = Append(keys, GetKey(r))
             /\ buckets' = Append(buckets, Accumulator(r, <<>>))
        ELSE /\ keys' = keys
             /\ buckets' = [buckets EXCEPT ![k] = Accumulator(r, buckets[k])]
  /\ accumulated' = accumulated + 1
  /\ UNCHANGED <<op, lossy, bpc, requests, finalized, futures, batch_outcome>>
  /\ UNCHANGED otherThanBatch

\* batch_requests hands the next bucket, in first-seen order of its key, to
\* the finalizer
BatchFinalize ==
  /\ op = "search_batch" /\ bpc = "construct"
  /\ accumulated = Len(requests)
  /\ finalized < Len(keys)
  /\ futures' = Finalizer(keys[finalized + 1], buckets[finalized + 1], futures)
  /\ finalized' = finalized + 1
  /\ UNCHANGED <<op, lossy, bpc, requests, accumulated, keys, buckets, batch_outcome>>
  /\ UNCHANGED otherThanBatch

\* batch_requests returns Ok(res); line 198 passes it on to line 200
BatchBuilt ==
  /\ op = "search_batch" /\ bpc = "construct"
  /\ accumulated = Len(requests)
  /\ finalized = Len(keys)
  /\ bpc' = "joining"
  /\ UNCHANGED <<op, lossy, requests, accumulated, keys, buckets, finalized,
                 futures, batch_outcome>>
  /\ UNCHANGED otherThanBatch

\* a step of batch_requests fails: batch_requests returns the error and the
\* `?` of line 198 returns it, dropping the futures built so far
BatchAbort ==
  /\ op = "search_batch" /\ bpc = "construct"
  /\ accumulated < Len(requests) \/ finalized < Len(keys)
  /\ batch_outcome' = Err("BadInput")
  /\ bpc' = "done"
  /\ UNCHANGED <<op, lossy, requests, accumulated, keys, buckets, finalized, futures>>
  /\ UNCHANGED otherThanBatch

\* the awaited join polls a future for the first time: the backing call starts
FutureStart(p) ==
  /\ bpc = "joining"
  /\ futures[p].state = "created"
  /\ futures' = [futures EXCEPT ![p].state = "running"]
  /\ UNCHANGED <<op, lossy, bpc, requests, accumulated, keys, buckets, finalized,
                 batch_outcome>>
  /\ UNCHANGED otherThanBatch

\* a running backing call resolves: to an error, or to result lists (one per
\* search; a lossy store may return only the first few)
StoreComplete(p) ==
  /\ bpc \in {"joining", "awaiting"}
  /\ futures[p].state = "running"
  /\ \/ \E e \in StoreErrors :
          futures' = [futures EXCEPT ![p].state = "err", ![p].err = e]
     \/ LET full == StoreBatch(futures[p].searches, futures[p].selector)
        IN \E n \in (IF lossy THEN 0..Len(full) ELSE {Len(full)}) :
             futures' = [futures EXCEPT ![p].state = "ok",
                                        ![p].result = SubSeq(full, 1, n)]
  /\ UNCHANGED <<op, lossy, bpc, requests, accumulated, keys, buckets, finalized,
                 batch_outcome>>
  /\ UNCHANGED otherThanBatch

\* lines 200-202: the join resolves; an error is returned by `?`, the lists of
\* the partitions are flattened otherwise
JoinReturn ==
  /\ bpc = "joining"
  /\ \E r \in try_join_all(futures) :
       batch_outcome' = IF r.ok THEN Ok(Flatten(r.value)) ELSE r
  /\ bpc' = "done"
  /\ UNCHANGED <<op, lossy, requests, accumulated, keys, buckets, finalized, futures>>
  /\ UNCHANGED otherThanBatch

NextBatch ==
  \/ BatchAccumulate
  \/ BatchFinalize
  \/ BatchBuilt
  \/ BatchAbort
  \/ \E p \in 1..Len(futures) : FutureStart(p)
  \/ \E p \in 1..Len(futures) : StoreComplete(p)
  \/ JoinReturn

\* ------------- do_core_search_batch_points, do_query_points (one await)
InitLossy ==
  /\ lossy = TRUE
  /\ \/ op = "search_batch" /\ requests \in BatchInputs
     \/ op = "core_search_batch"
          /\ requests \in SeqsUpTo([req : SearchPayloads, selector : {"All"}], MaxBatch)
     \/ op = "query"
          /\ requests \in SeqsOfLen([req : SearchPayloads, selector : ShardSelectors], 1)
  /\ InitCall

\* lines 216-225 / 387-397: the one backing call is issued and awaited
SingleIssue ==
  /\ op \in {"core_search_batch", "query"} /\ bpc = "construct"
  /\ LET selector == IF requests = <<>> THEN "All" ELSE requests[1].selector
         searches == [i \in 1..Len(requests) |-> requests[i].req]
     IN futures' = <<[NewFuture(selector, searches) EXCEPT !.state = "running"]>>
  /\ bpc' = "awaiting"
  /\ UNCHANGED <<op, lossy, requests, accumulated, keys, buckets, finalized,
                 batch_outcome>>
  /\ UNCHANGED otherThanBatch

\* lines 216-225: what the backing call resolved to is returned as it is
CoreSearchBatchReturn ==
  /\ op = "core_search_batch" /\ bpc = "awaiting"
  /\ futures[1].state \in {"ok", "err"}
  /\ batch_outcome' = IF futures[1].state = "ok" THEN Ok(futures[1].result)
                      ELSE Err(futures[1].err)
  /\ bpc' = "done"
  /\ UNCHANGED <<op, lossy, requests, accumulated, keys, buckets, finalized, futures>>
  /\ UNCHANGED otherThanBatch

\* lines 397-401: `?`, then the first list or a service error
QueryReturn ==
  /\ op = "query" /\ bpc = "awaiting"
  /\ futures[1].state \in {"ok", "err"}
  /\ batch_outcome' =
       IF futures[1].state = "err" THEN Err(futures[1].err)
       ELSE IF futures[1].result = <<>> THEN Err("ServiceError: Empty query result")
       ELSE Ok(futures[1].result[1])
  /\ bpc' = "done"
  /\ UNCHANGED <<op, lossy, requests, accumulated, keys, buckets, finalized, futures>>
  /\ UNCHANGED otherThanBatch

NextLossy ==
  \/ NextBatch
  \/ SingleIssue
  \/ CoreSearchBatchReturn
  \/ QueryReturn

\* ------------------------------------------ types.rs: ScoredPointOffset
\* An f32 score: a number or NaN.  (-0.0 is left out: both == and
\* OrderedFloat take it for equal to 0.0.)
Float(k) == [nan |-> FALSE, val |-> k]
NaN == [nan |-> TRUE, val |-> 0]
Floats == {Float(k) : k \in {-1, 0, 1}} \cup {NaN}

ScoredPointOffsets == [idx : 0..MaxIdx, score : Floats]

\* f32 == : IEEE equality, NaN differs from everything
F32Eq(x, y) == ~x.nan /\ ~y.nan /\ x.val = y.val

\* OrderedFloat(x).cmp(&OrderedFloat(y)): NaN equals NaN and is greater than
\* every number
OrderedFloatCmp(x, y) ==
  IF x.nan /\ y.nan THEN "Equal"
  ELSE IF x.nan THEN "Greater"
  ELSE IF y.nan THEN "Less"
  ELSE IF x.val < y.val THEN "Less"
  ELSE IF x.val > y.val THEN "Greater"
  ELSE "Equal"

\* #[derive(PartialEq)] on the struct: every field is compared
ScoredPointOffset_eq(a, b) == a.idx = b.idx /\ F32Eq(a.score, b.score)

\* impl Ord: line 23
ScoredPointOffset_cmp(a, b) == OrderedFloatCmp(a.score, b.score)

\* impl PartialOrd: line 29
ScoredPointOffset_partial_cmp(a, b) == Some(ScoredPointOffset_cmp(a, b))

OffsetIdle ==
  /\ opc = "idle"
  /\ lhs = <<>> /\ rhs = <<>>
  /\ cmp_res = None
  /\ partial_res = None
  /\ eq_res = None

InitOffset ==
  /\ opc = "input"
  /\ lhs \in ScoredPointOffsets
  /\ rhs \in ScoredPointOffsets
  /\ cmp_res = None
  /\ partial_res = None
  /\ eq_res = None

\* lhs.cmp(&rhs)
CallCmp ==
  /\ opc = "input" /\ cmp_res = None
  /\ cmp_res' = Some(ScoredPointOffset_cmp(lhs, rhs))
  /\ UNCHANGED <<opc, lhs, rhs, partial_res, eq_res>>
  /\ UNCHANGED otherThanOffset

\* lhs.partial_cmp(&rhs)
CallPartialCmp ==
  /\ opc = "input" /\ partial_res = None
  /\ partial_res' = Some(ScoredPointOffset_partial_cmp(lhs, rhs))
  /\ UNCHANGED <<opc, lhs, rhs, cmp_res, eq_res>>
  /\ UNCHANGED otherThanOffset

\* lhs == rhs
CallEq ==
  /\ opc = "input" /\ eq_res = None
  /\ eq_res' = Some(ScoredPointOffset_eq(lhs, rhs))
  /\ UNCHANGED <<opc, lhs, rhs, cmp_res, partial_res>>
  /\ UNCHANGED otherThanOffset

NextOffset ==
  \/ CallCmp
  \/ CallPartialCmp
  \/ CallEq

\* ------------------------------------------------------ specifications
ExplainIdle ==
  /\ epc = "idle"
  /\ v1 = <<>> /\ v2 = <<>>
  /\ metric = "Dot"
  /\ top_n = None
  /\ contributions = <<>>
  /\ explanation = <<>>

InitExplainOnly == InitExplain /\ SearchIdle /\ BatchIdle /\ OffsetIdle
SpecExplain == InitExplainOnly /\ [][NextExplain]_vars

InitSearchOnly == InitSearch /\ ExplainIdle /\ BatchIdle /\ OffsetIdle
SpecSearch == InitSearchOnly /\ [][NextSearch]_vars

InitBatchOnly == InitBatch /\ ExplainIdle /\ SearchIdle /\ OffsetIdle
SpecBatch == InitBatchOnly /\ [][NextBatch]_vars

InitLossyOnly == InitLossy /\ ExplainIdle /\ SearchIdle /\ OffsetIdle
SpecLossy == InitLossyOnly /\ [][NextLossy]_vars

InitOffsetOnly == InitOffset /\ ExplainIdle /\ SearchIdle /\ BatchIdle
SpecOffset == InitOffsetOnly /\ [][NextOffset]_vars

\* ======================================================== claims
Range(s) == {s[i] : i \in 1..Len(s)}
Count(s, x) == Cardinality({i \in 1..Len(s) : s[i] = x})

RECURSIVE SumNum(_)
SumNum(cs) == IF cs = <<>> THEN 0 ELSE cs[1].contribution.num + SumNum(Tail(cs))

RECURSIVE DotProduct(_, _)
DotProduct(a, b) ==
  IF a = <<>> \/ b = <<>> THEN 0 ELSE a[1] * b[1] + DotProduct(Tail(a), Tail(b))

RECURSIVE SquaredDistance(_, _)
SquaredDistance(a, b) ==
  IF a = <<>> \/ b = <<>> THEN 0
  ELSE (a[1] - b[1]) * (a[1] - b[1]) + SquaredDistance(Tail(a), Tail(b))

RECURSIVE L1Distance(_, _)
L1Distance(a, b) ==
  IF a = <<>> \/ b = <<>> THEN 0
  ELSE AbsInt(a[1] - b[1]) + L1Distance(Tail(a), Tail(b))

\* C9: for every contribution sequence of length L and every top_n,
\* ScoreExplanation::new returns top_dimensions of length min(top_n, L), in
\* non-increasing order of absolute contribution, a sub-multiset of the input,
\* every entry left out being no larger in absolute value than every entry
\* kept; dot, v1=[1,5,2,8,3], v2=[1,1,1,1,1], top_n=3 gives dimensions [3,1,4]
\* with contributions [8,5,3]; an unspecified top_n means 10.
C9_TopDimensions ==
  epc = "explained" =>
    LET n == IF top_n = None THEN 10 ELSE top_n[1]
        inp == contributions
        out == explanation
    IN /\ Len(out) = Min(n, Len(inp))
       /\ \A i \in 1..(Len(out) - 1) :
            ~AbsLess(out[i].contribution, out[i + 1].contribution)
       /\ \A x \in Range(out) : Count(out, x) <= Count(inp, x)
       /\ \A x \in Range(inp) :
            Count(out, x) < Count(inp, x) =>
              \A y \in Range(out) : ~AbsLess(y.contribution, x.contribution)
       /\ ( /\ v1 = <<1, 5, 2, 8, 3>> /\ v2 = <<1, 1, 1, 1, 1>>
            /\ metric = "Dot" /\ top_n = Some(3) )
          => out = << DimensionContribution(3, IntScore(8)),
                      DimensionContribution(1, IntScore(5)),
                      DimensionContribution(4, IntScore(3)) >>

\* an explanation with the default top_n that dropped entries and reordered
\* the ones it kept
C9_Witness ==
  /\ epc = "explained"
  /\ top_n = None
  /\ Len(contributions) > 10
  /\ Len(explanation) = 10
  /\ explanation # SubSeq(contributions, 1, 10)
  /\ \E i \in 1..9 : AbsLess(explanation[i + 1].contribution, explanation[i].contribution)

\* C10: for equal-length vectors the dot contributions sum to the dot product,
\* the Euclidean ones to the negative squared distance, the Manhattan ones to
\* the negative L1 distance, and every Euclidean and Manhattan contribution
\* is <= 0.
C10_ContributionSums ==
  (epc \in {"contrib", "explained"} /\ Len(v1) = Len(v2)
     /\ metric \in {"Dot", "Euclid", "Manhattan"}) =>
    /\ \A i \in 1..Len(contributions) : contributions[i].contribution.den2 = 1
    /\ metric = "Dot" => SumNum(contributions) = DotProduct(v1, v2)
    /\ metric = "Euclid" => SumNum(contributions) = -SquaredDistance(v1, v2)
    /\ metric = "Manhattan" => SumNum(contributions) = -L1Distance(v1, v2)
    /\ metric \in {"Euclid", "Manhattan"} =>
         \A i \in 1..Len(contributions) : contributions[i].contribution.num <= 0

\* Euclidean contributions of two different vectors of the longest drawn length
C10_Witness ==
  /\ epc = "contrib"
  /\ metric = "Euclid"
  /\ Len(v1) = MaxLen /\ Len(v2) = MaxLen
  /\ SumNum(contributions) < -1

\* ---------------------------------------------------- do_search_batch_points
DistinctSelectors == {requests[i].selector : i \in 1..Len(requests)}
ConstructionComplete == accumulated = Len(requests) /\ finalized = Len(keys)

\* the requests of one selector, in input order
RECURSIVE SearchesOf(_, _)
SearchesOf(rs, selector) ==
  IF rs = <<>> THEN <<>>
  ELSE (IF rs[1].selector = selector THEN <<rs[1].req>> ELSE <<>>)
         \o SearchesOf(Tail(rs), selector)

\* C1: for every input list of (request, selector) pairs and every completion
\* order of the backing calls, a successful do_search_batch_points returns one
\* list per input request, the i-th being the result of the i-th request
\* executed alone against its own selector.
C1_ResultsIndexAligned ==
  (op = "search_batch" /\ bpc = "done" /\ batch_outcome.ok) =>
    batch_outcome.value =
      [i \in 1..Len(requests) |-> Exec(requests[i].req, requests[i].selector)]

\* C2: requests with the same selector are coalesced into one backing call even
\* at non-adjacent positions: once the batch is built there is exactly one
\* backing call per distinct selector of the input, carrying the requests of
\* that selector in input order, and never more calls than distinct selectors.
C2_OneCallPerSelector ==
  op = "search_batch" =>
    /\ Len(futures) <= Cardinality(DistinctSelectors)
    /\ (bpc \in {"joining", "done"} /\ ConstructionComplete) =>
         /\ Len(futures) = Cardinality(DistinctSelectors)
         /\ \A sel \in DistinctSelectors :
              \E p \in 1..Len(futures) :
                /\ futures[p].selector = sel
                /\ futures[p].searches = SearchesOf(requests, sel)

\* selectors A, B, A: two backing calls for three requests
C2_Witness ==
  /\ op = "search_batch" /\ bpc = "joining"
  /\ Len(requests) = 3
  /\ requests[1].selector = requests[3].selector
  /\ requests[1].selector # requests[2].selector
  /\ Len(futures) = 2
  /\ Len(futures[1].searches) = 2

\* C3: if any per-partition backing call fails, the call returns the error of
\* a failed call and never a result list, whatever the other partitions did;
\* a success is returned only after every partition call has succeeded.
C3_FailFast ==
  op = "search_batch" =>
    LET failed == {p \in 1..Len(futures) : futures[p].state = "err"}
    IN /\ batch_outcome.ok => \A p \in 1..Len(futures) : futures[p].state = "ok"
       /\ failed # {} => ~batch_outcome.ok
       /\ (bpc = "done" /\ failed # {}) =>
            \E p \in failed : batch_outcome = Err(futures[p].err)
       /\ (bpc = "done" /\ ConstructionComplete /\ failed = {}) => batch_outcome.ok

\* the call has returned a timeout of one partition after another partition
\* had completed successfully
C3_Witness ==
  /\ op = "search_batch" /\ bpc = "done"
  /\ batch_outcome = Err("Timeout")
  /\ \E p, q \in 1..Len(futures) :
       futures[p].state = "ok" /\ futures[q].state = "err"

\* C4: if a step of batch construction fails, the call returns that error and
\* no backing call has started executing for any partition, the partitions
\* whose bucket was finalized before the failing step included; no backing
\* call starts while the batch is under construction.
C4_NoDispatchBeforeBuilt ==
  op = "search_batch" =>
    /\ bpc = "construct" =>
         \A p \in 1..Len(futures) : futures[p].state = "created"
    /\ (bpc = "done" /\ ~ConstructionComplete) =>
         /\ batch_outcome = Err("BadInput")
         /\ \A p \in 1..Len(futures) : futures[p].state = "created"

\* construction failed after the bucket of one partition had been finalized
C4_Witness ==
  /\ op = "search_batch" /\ bpc = "done"
  /\ batch_outcome = Err("BadInput")
  /\ finalized < Len(keys)
  /\ Len(futures) >= 1

\* ----------------------------------------------------- do_core_search_points
IsNearestDense(q) == q.kind = "Nearest" /\ q.query.kind = "Dense"

\* the stored point has a single dense vector, or a dense one among its named
HasRetrievableDense(stored) ==
  /\ stored # None
  /\ \/ stored[1].kind = "Single"
     \/ /\ stored[1].kind = "Named"
        /\ \E n \in DOMAIN stored[1].named : stored[1].named[n].kind = "Dense"

DenseVectorsOf(stored) ==
  IF stored = None THEN {}
  ELSE {d[1] : d \in extract_dense_vector_from_struct(stored[1]) \ {None}}

\* what the same request returns when it does not ask for an explanation
PlainSearchPoints ==
  LET plain == [request EXCEPT !.with_explanation = FALSE]
  IN CHOOSE r \in PostProcess(StoreSearch(RequestSent(plain), hits), FALSE,
                              plain.with_vector, QueryVector(plain), config_distance) : TRUE

\* C5: in a successful do_core_search_points call a returned point carries a
\* score explanation iff with_explanation is set, the query is a
\* nearest-neighbour query with a dense vector and the point has a retrievable
\* dense vector; sparse, multi-vector and non-nearest queries attach none and
\* the call still succeeds; without with_explanation nothing is attached.
C5_ExplanationIff ==
  spc = "done" =>
    /\ (batch_res.ok /\ batch_res.value # <<>>) => search_outcome.ok
    /\ search_outcome.ok =>
         /\ Len(search_outcome.value) = Len(hits)
         /\ \A i \in 1..Len(hits) :
              (search_outcome.value[i].score_explanation # None) <=>
                ( /\ request.with_explanation
                  /\ IsNearestDense(request.query)
                  /\ HasRetrievableDense(hits[i]) )

\* an explained search that returned a point with an explanation and a point
\* without one
C5_Witness ==
  /\ spc = "done" /\ search_outcome.ok
  /\ request.with_explanation
  /\ \E i, j \in 1..Len(search_outcome.value) :
       /\ search_outcome.value[i].score_explanation # None
       /\ search_outcome.value[j].score_explanation = None

\* C6: for every original with_vector setting the vector payload of each point
\* returned with with_explanation=true is the payload the same request returns
\* with with_explanation=false.
C6_PayloadUnchanged ==
  (spc = "done" /\ search_outcome.ok) =>
    \A i \in 1..Len(search_outcome.value) :
      search_outcome.value[i].vector = PlainSearchPoints[i].vector

\* C7: every attached explanation is compute_explanation(D, query vector,
\* point vector, top 10) for the metric D the collection is configured with.
C7_ConfiguredMetric ==
  (spc = "done" /\ search_outcome.ok) =>
    \A i \in 1..Len(search_outcome.value) :
      search_outcome.value[i].score_explanation # None =>
        \E d \in DenseVectorsOf(hits[i]) :
          search_outcome.value[i].score_explanation[1] =
            compute_explanation(config_distance, query_vector[1], d, Some(10))

\* C8: whenever the backing store returns successfully with fewer result
\* lists than the requests of the backing call, the operation returns an
\* internal-service error and not a success (do_core_search_points,
\* do_query_points, do_core_search_batch_points, do_search_batch_points).
C8_ShortBatchIsServiceError ==
  /\ (spc = "done" /\ batch_res.ok /\ Len(batch_res.value) < 1) =>
       search_outcome = Err("ServiceError: Empty search result")
  /\ (bpc = "done" /\ \E p \in 1..Len(futures) :
                         /\ futures[p].state = "ok"
                         /\ Len(futures[p].result) < Len(futures[p].searches)) =>
       /\ ~batch_outcome.ok
       /\ (\A p \in 1..Len(futures) : futures[p].state # "err") =>
            batch_outcome.err \in {"ServiceError: Empty search result",
                                   "ServiceError: Empty query result"}

\* ------------------------------------------------------- ScoredPointOffset
\* the two scores are the same f32 value
SameScore(a, b) == a.score = b.score

\* C11: ScoredPointOffset values are compared by score only: two values with
\* equal score, whatever their offsets, compare equal, and the equality test
\* and the ordering agree on every pair (a == b exactly when cmp is Equal).
C11_EqAgreesWithOrd ==
  (cmp_res # None /\ partial_res # None /\ eq_res # None) =>
    /\ SameScore(lhs, rhs) => (cmp_res[1] = "Equal" /\ eq_res[1])
    /\ partial_res[1] = Some(cmp_res[1])
    /\ eq_res[1] <=> (cmp_res[1] = "Equal")

\* --------------------------------------------- contribution sequence shape
\* C12: for each metric and any input lengths L1 and L2, compute_contributions
\* returns exactly min(L1, L2) contributions with dimensions 0..min-1 in
\* order; this includes cosine with a zero-norm vector, whose contributions
\* are all exactly zero; empty input yields an empty sequence.
C12_MinLengthContributions ==
  epc \in {"contrib", "explained"} =>
    LET m == Min(Len(v1), Len(v2))
    IN /\ Len(contributions) = m
       /\ \A i \in 1..Len(contributions) : contributions[i].dimension = i - 1
       /\ (metric = "Cosine" /\ (SumSq(v1) = 0 \/ SumSq(v2) = 0)) =>
            \A i \in 1..Len(contributions) :
              contributions[i].contribution = IntScore(0)
       /\ (v1 = <<>> \/ v2 = <<>>) => contributions = <<>>

\* ------------------------------------------------------------ tie handling
AbsEq(a, b) == ~AbsLess(a, b) /\ ~AbsLess(b, a)

\* index of x in the contribution sequence the explanation was made from
InputPos(x) == CHOOSE i \in 1..Len(contributions) : contributions[i] = x

\* C13: contributions of equal absolute value, a positive and a negative one
\* of the same magnitude included, keep their original relative order in the
\* explanation, and when the truncation cuts through a group of ties the
\* earlier ones are the ones kept.
C13_TiesKeepInputOrder ==
  epc = "explained" =>
    /\ \A i, j \in 1..Len(explanation) :
         (i < j /\ AbsEq(explanation[i].contribution, explanation[j].contribution))
           => InputPos(explanation[i]) < InputPos(explanation[j])
    /\ \A k \in 1..Len(contributions) :
         contributions[k] \notin Range(explanation) =>
           \A i \in 1..Len(explanation) :
             AbsEq(explanation[i].contribution, contributions[k].contribution)
               => InputPos(explanation[i]) < k

\* an explanation that the sort reordered, that kept a positive contribution
\* before a negative one of the same magnitude, and that left out a
\* contribution tied with one it kept
C13_Witness ==
  /\ epc = "explained"
  /\ \E i \in 1..(Len(explanation) - 1) :
       InputPos(explanation[i]) > InputPos(explanation[i + 1])
  /\ \E i, j \in 1..Len(explanation) :
       /\ i < j
       /\ AbsEq(explanation[i].contribution, explanation[j].contribution)
       /\ explanation[i].contribution.num > 0
       /\ explanation[j].contribution.num < 0
  /\ \E k \in 1..Len(contributions) :
       /\ contributions[k] \notin Range(explanation)
       /\ \E i \in 1..Len(explanation) :
            AbsEq(contributions[k].contribution, explanation[i].contribution)

====
